---- MODULE Spec2Model ----
(***************************************************************************)
(* nondjango-storages: path normalisation (safe_join, get_valid_name) and  *)
(* the filesystem / S3 storage backends with their File handle.            *)
(*                                                                         *)
(* A Python str is a sequence of one-character strings, so that prefix     *)
(* tests, '//' replacement and '/'-splitting are computed as the code      *)
(* computes them.                                                          *)
(***************************************************************************)
EXTENDS Integers, Sequences, FiniteSets, TLC

VARIABLES
    pc,        \* "idle"/"done" (SpecJoin) or "ready"/"returned" (Spec): a call has returned
    call,      \* SpecJoin: the call made, [fn, base, paths, cwd]
    ret,       \* SpecJoin: what the call returned or raised
    backend,   \* Spec: "fs" (FilesystemStorage) or "s3" (S3Storage)
    cwd,       \* Spec: os.getcwd(), a str
    workdir,   \* Spec: the workdir argument of the storage's constructor
    files,     \* Spec: fs: absolute component path -> bytes; s3: key (str) -> bytes
    dirs,      \* Spec: fs: the set of directories (absolute component paths)
    last,      \* Spec: the last operation: [op, name, mode, exc, out, io, prim]
    hist       \* Spec: per logical name, what was last done successfully through the API

vars == <<pc, call, ret, backend, cwd, workdir, files, dirs, last, hist>>
joinVars == <<pc, call, ret>>
storeVars == <<backend, cwd, workdir, files, dirs, last, hist>>

(***************************************************************************)
(* Python str primitives                                                   *)
(***************************************************************************)
SEP == "/"

\* a local variable: the value e under the name that F gives it
Let(e, F(_)) == F(e)

\* what a call produces: a value, or an exception
Ok(v) == [exc |-> "", val |-> v]
Raise(e) == [exc |-> e, val |-> <<>>]

\* str.startswith
StartsWith(s, p) == Len(p) <= Len(s) /\ SubSeq(s, 1, Len(p)) = p

\* str.endswith
EndsWith(s, p) == Len(p) <= Len(s) /\ SubSeq(s, Len(s) - Len(p) + 1, Len(s)) = p

\* str.rstrip(c)
RECURSIVE RStrip(_, _)
RStrip(s, c) == IF s # <<>> /\ s[Len(s)] = c THEN RStrip(SubSeq(s, 1, Len(s) - 1), c) ELSE s

\* str.lstrip(c)
RECURSIVE LStrip(_, _)
LStrip(s, c) == IF s # <<>> /\ s[1] = c THEN LStrip(Tail(s), c) ELSE s

\* str.find(c) for a one-character c: the first index (1-based), or 0
RECURSIVE FindChar(_, _, _)
FindChar(s, c, i) == IF i > Len(s) THEN 0 ELSE IF s[i] = c THEN i ELSE FindChar(s, c, i + 1)

\* str.split(c): 'a//b' -> ['a', '', 'b'], '' -> ['']
RECURSIVE Split(_, _)
Split(s, c) ==
    LET i == FindChar(s, c, 1)
    IN  IF i = 0 THEN <<s>>
        ELSE <<SubSeq(s, 1, i - 1)>> \o Split(SubSeq(s, i + 1, Len(s)), c)

\* c.join(parts)
RECURSIVE JoinWith(_, _)
JoinWith(parts, c) ==
    IF parts = <<>> THEN <<>>
    ELSE IF Len(parts) = 1 THEN parts[1]
    ELSE parts[1] \o <<c>> \o JoinWith(Tail(parts), c)

\* the first index at or after i where old occurs in s, or 0
RECURSIVE FindSub(_, _, _)
FindSub(s, old, i) ==
    IF i + Len(old) - 1 > Len(s) THEN 0
    ELSE IF SubSeq(s, i, i + Len(old) - 1) = old THEN i
    ELSE FindSub(s, old, i + 1)

\* 'x' in s
Contains(s, old) == FindSub(s, old, 1) # 0

\* str.replace(old, new): left to right, non-overlapping occurrences (old non-empty)
RECURSIVE Replace(_, _, _)
Replace(s, old, new) ==
    LET i == FindSub(s, old, 1)
    IN  IF i = 0 THEN s
        ELSE SubSeq(s, 1, i - 1) \o new
             \o Replace(SubSeq(s, i + Len(old), Len(s)), old, new)

\* str.partition(c) as <<head, sep, tail>>
Partition(s, c) ==
    LET i == FindChar(s, c, 1)
    IN  IF i = 0 THEN <<s, <<>>, <<>>>>
        ELSE <<SubSeq(s, 1, i - 1), <<c>>, SubSeq(s, i + 1, Len(s))>>

\* the last index of c in s, or 0
RECURSIVE RFindChar(_, _, _)
RFindChar(s, c, i) == IF i = 0 THEN 0 ELSE IF s[i] = c THEN i ELSE RFindChar(s, c, i - 1)

\* str.rpartition(c) as <<head, sep, tail>>
RPartition(s, c) ==
    LET i == RFindChar(s, c, Len(s))
    IN  IF i = 0 THEN <<<<>>, <<>>, s>>
        ELSE <<SubSeq(s, 1, i - 1), <<c>>, SubSeq(s, i + 1, Len(s))>>

(***************************************************************************)
(* posixpath                                                               *)
(***************************************************************************)
DOT == <<".">>
DOTDOT == <<".", ".">>

\* posixpath.join(a, b)
PosixJoin(a, b) ==
    IF StartsWith(b, <<SEP>>) THEN b
    ELSE IF a = <<>> \/ EndsWith(a, <<SEP>>) THEN a \o b
    ELSE a \o <<SEP>> \o b

\* posixpath.join(base, *paths)
RECURSIVE JoinAll(_, _)
JoinAll(a, paths) == IF paths = <<>> THEN a ELSE JoinAll(PosixJoin(a, Head(paths)), Tail(paths))

\* the loop of posixpath.normpath over the components
RECURSIVE NormComps(_, _, _)
NormComps(comps, new, initial) ==
    IF comps = <<>> THEN new
    ELSE LET comp == Head(comps)
         IN  IF comp = <<>> \/ comp = DOT THEN NormComps(Tail(comps), new, initial)
             ELSE IF comp # DOTDOT
                     \/ (initial = 0 /\ new = <<>>)
                     \/ (new # <<>> /\ new[Len(new)] = DOTDOT)
                  THEN NormComps(Tail(comps), Append(new, comp), initial)
             ELSE IF new # <<>>
                  THEN NormComps(Tail(comps), SubSeq(new, 1, Len(new) - 1), initial)
             ELSE NormComps(Tail(comps), new, initial)

\* the number of leading slashes posixpath.normpath keeps: 0, 1 or 2
InitialSlashes(path) ==
    IF ~StartsWith(path, <<SEP>>) THEN 0
    ELSE IF StartsWith(path, <<SEP, SEP>>) /\ ~StartsWith(path, <<SEP, SEP, SEP>>) THEN 2
    ELSE 1

\* posixpath.normpath
NormPath(path) ==
    IF path = <<>> THEN DOT
    ELSE Let(InitialSlashes(path), LAMBDA initial :
         Let([i \in 1..initial |-> SEP]
             \o JoinWith(NormComps(Split(path, SEP), <<>>, initial), SEP), LAMBDA out :
         IF out = <<>> THEN DOT ELSE out))

\* posixpath.abspath with the process in directory wd
AbsPath(path, wd) ==
    IF StartsWith(path, <<SEP>>) THEN NormPath(path) ELSE NormPath(PosixJoin(wd, path))

\* [x for x in s.split('/') if x]
Comps(s) == SelectSeq(Split(s, SEP), LAMBDA x : x # <<>>)

\* len(os.path.commonprefix([a, b])) on two lists
RECURSIVE CommonLen(_, _)
CommonLen(a, b) ==
    IF a = <<>> \/ b = <<>> \/ Head(a) # Head(b) THEN 0 ELSE 1 + CommonLen(Tail(a), Tail(b))

\* posixpath.relpath(path, start) with the process in directory wd (path non-empty)
RelPath(path, start, wd) ==
    Let(Comps(AbsPath(start, wd)), LAMBDA start_list :
    Let(Comps(AbsPath(path, wd)), LAMBDA path_list :
    Let(CommonLen(start_list, path_list), LAMBDA i :
    Let([k \in 1..(Len(start_list) - i) |-> DOTDOT]
        \o SubSeq(path_list, i + 1, Len(path_list)), LAMBDA rel_list :
    IF rel_list = <<>> THEN DOT ELSE JoinWith(rel_list, SEP)))))

(***************************************************************************)
(* storages.safe_join                                                      *)
(***************************************************************************)
\* one turn of the loop folding a segment onto final_path
FoldSegment(final_path, path) ==
    Let(NormPath(PosixJoin(final_path, path)), LAMBDA n :
    IF EndsWith(path, <<SEP>>) \/ n \o <<SEP>> = final_path THEN n \o <<SEP>> ELSE n)

RECURSIVE FoldPaths(_, _)
FoldPaths(final_path, paths) ==
    IF paths = <<>> THEN final_path
    ELSE FoldPaths(FoldSegment(final_path, Head(paths)), Tail(paths))

\* the folded path without the separator lines 52-53 give back to a bare base
FoldedOnly(base, paths) == FoldPaths(RStrip(base, SEP) \o <<SEP>>, paths)

\* final_path just before the containment check
FinalPath(base, paths) ==
    Let(RStrip(base, SEP), LAMBDA base_path :
    Let(FoldPaths(base_path \o <<SEP>>, paths), LAMBDA folded :
    IF folded = base_path THEN folded \o <<SEP>> ELSE folded))

\* a containment check that forgets the character after the base
PrefixOnly(final_path, base_path) ==
    IF ~StartsWith(final_path, base_path) THEN "ValueError" ELSE "ok"

\* the containment check of lines 57-60: "ok", or the exception it raises
Containment(final_path, base_path) ==
    IF ~StartsWith(final_path, base_path) THEN "ValueError"
    ELSE IF Len(final_path) <= Len(base_path) THEN "IndexError"   \* final_path[base_path_len]
    ELSE IF final_path[Len(base_path) + 1] # SEP THEN "ValueError"
    ELSE "ok"

safe_join(base, paths) ==
    Let(StartsWith(base, <<SEP>>), LAMBDA starts_on_root :
    Let(FinalPath(base, paths), LAMBDA final_path :
    Let(Containment(final_path, RStrip(base, SEP)), LAMBDA check :
    IF check # "ok" THEN Raise(check)
    ELSE IF starts_on_root THEN Ok(final_path) ELSE Ok(LStrip(final_path, SEP)))))

(***************************************************************************)
(* BaseStorage.get_valid_name                                              *)
(***************************************************************************)
PARENT == <<".", ".", "/">>

\* the name check that raises SuspiciousOperation
Suspicious(walked_path) == StartsWith(walked_path, PARENT)

get_valid_name(name, wd) ==
    Let(IF name # <<>> THEN RelPath(name, DOT, wd) ELSE <<>>, LAMBDA walked_path :
    IF Suspicious(walked_path) THEN Raise("SuspiciousOperation") ELSE Ok(walked_path))

(***************************************************************************)
(* Inputs of the pure path functions                                       *)
(***************************************************************************)
MaxBaseLen == 2
MaxSegLen == 4
MaxPairLen == 2

Alphabet == {SEP, ".", "a"}

StrsUpTo(n) == UNION {[1..k -> Alphabet] : k \in 0..n}

\* the paths of the documented scenarios
BASE == <<"/", "b", "a", "s", "e">>
EVIL == <<".", ".", "/", "e", "v", "i", "l">>
SIBLING == <<".", ".", "/", "b", "a", "s", "e", "-", "e", "v", "i", "l", "/", "x">>
SUBFILE == <<"s", "u", "b", "/", ".", ".", "/", "f", "i", "l", "e", ".", "t", "x", "t">>
BASEFILE == <<"/", "b", "a", "s", "e", "/", "f", "i", "l", "e", ".", "t", "x", "t">>

Bases == StrsUpTo(MaxBaseLen) \cup {BASE, <<".", "/", "a">>, <<"a", "/", "/", "a">>, <<"/", "a", "/">>}
Segments == StrsUpTo(MaxSegLen) \cup {EVIL, SIBLING, SUBFILE}
PathLists ==
    {<<>>} \cup {<<s>> : s \in Segments}
    \cup {<<s, t>> : s \in StrsUpTo(MaxPairLen), t \in StrsUpTo(MaxPairLen)}

Cwds == {<<"/", "a">>, <<"/", "a", "/", "a">>}

NoCall == [fn |-> "none", base |-> <<>>, paths |-> <<>>, wd |-> <<>>]

StoreIdle ==
    /\ backend = "none" /\ cwd = <<>> /\ workdir = <<>> /\ files = <<>> /\ dirs = {}
    /\ last = <<>> /\ hist = <<>>

JoinInit == pc = "idle" /\ call = NoCall /\ ret = Ok(<<>>) /\ StoreIdle

CallSafeJoin ==
    /\ pc = "idle"
    /\ \E base \in Bases, paths \in PathLists :
        /\ call' = [fn |-> "safe_join", base |-> base, paths |-> paths, wd |-> <<>>]
        /\ ret' = safe_join(base, paths)
    /\ pc' = "done"
    /\ UNCHANGED storeVars

CallGetValidName ==
    /\ pc = "idle"
    /\ \E wd \in Cwds, name \in Segments :
        /\ call' = [fn |-> "get_valid_name", base |-> <<>>, paths |-> <<name>>, wd |-> wd]
        /\ ret' = get_valid_name(name, wd)
    /\ pc' = "done"
    /\ UNCHANGED storeVars

Return ==
    /\ pc = "done"
    /\ pc' = "idle" /\ call' = NoCall /\ ret' = Ok(<<>>)
    /\ UNCHANGED storeVars

JoinNext == CallSafeJoin \/ CallGetValidName \/ Return

SpecJoin == JoinInit /\ [][JoinNext]_vars


(***************************************************************************)
(* The operating system under FilesystemStorage: a tree of directories     *)
(* (D, absolute normalized paths) and files (F, path -> bytes), without    *)
(* symbolic links, and a process in directory wd.                          *)
(***************************************************************************)
ROOT == <<SEP>>

\* dirname of an absolute normalized path
Parent(p) == Let(RPartition(p, SEP)[1], LAMBDA h : IF h = <<>> THEN ROOT ELSE h)

\* basename of an absolute normalized path
BaseName(p) == RPartition(p, SEP)[3]

Child(p, c) == IF p = ROOT THEN ROOT \o c ELSE p \o <<SEP>> \o c

\* the kernel's path walk from directory cur
RECURSIVE OsWalk(_, _, _, _)
OsWalk(comps, cur, D, F) ==
    IF comps = <<>> THEN [err |-> "", path |-> cur]
    ELSE IF cur \notin D
         THEN [err |-> IF cur \in DOMAIN F THEN "NotADirectoryError" ELSE "FileNotFoundError",
               path |-> cur]
    ELSE LET c == Head(comps)
         IN  IF c = <<>> \/ c = DOT THEN OsWalk(Tail(comps), cur, D, F)
             ELSE IF c = DOTDOT THEN OsWalk(Tail(comps), Parent(cur), D, F)
             ELSE OsWalk(Tail(comps), Child(cur, c), D, F)

\* the file or directory a path names for the process, or the errno of the walk
OsResolve(path, wd, D, F) ==
    IF path = <<>> THEN [err |-> "FileNotFoundError", path |-> <<>>]
    ELSE OsWalk(Split(path, SEP), IF StartsWith(path, <<SEP>>) THEN ROOT ELSE wd, D, F)

\* open(path, 'r').read() / open(path, 'rb'): the bytes, or the OSError
OsRead(path, wd, D, F) ==
    Let(OsResolve(path, wd, D, F), LAMBDA r :
    IF r.err # "" THEN Raise(r.err)
    ELSE IF r.path \in D THEN Raise("IsADirectoryError")
    ELSE IF r.path \notin DOMAIN F THEN Raise("FileNotFoundError")
    ELSE [exc |-> "", val |-> F[r.path], at |-> r.path])

\* where open(path, 'wb') creates or truncates, or the OSError
OsCreate(path, wd, D, F) ==
    Let(OsResolve(path, wd, D, F), LAMBDA r :
    IF r.err # "" THEN Raise(r.err)
    ELSE IF r.path \in D THEN Raise("IsADirectoryError")
    ELSE Ok(r.path))

\* where os.unlink(path) removes, or the OSError
OsUnlink(path, wd, D, F) ==
    Let(OsResolve(path, wd, D, F), LAMBDA r :
    IF r.err # "" THEN Raise(r.err)
    ELSE IF r.path \in D THEN Raise("IsADirectoryError")
    ELSE IF r.path \notin DOMAIN F THEN Raise("FileNotFoundError")
    ELSE Ok(r.path))

\* os.path.isdir
OsIsDir(path, wd, D, F) ==
    Let(OsResolve(path, wd, D, F), LAMBDA r : r.err = "" /\ r.path \in D)

\* os.path.exists
OsExists(path, wd, D, F) ==
    Let(OsResolve(path, wd, D, F), LAMBDA r :
    r.err = "" /\ (r.path \in D \/ r.path \in DOMAIN F))

\* an absolute normalized path and the directories above it
RECURSIVE Ancestors(_)
Ancestors(p) == IF p = ROOT THEN {ROOT} ELSE {p} \cup Ancestors(Parent(p))

\* utils.prepare_path(file_name): every parent directory of file_name exists afterwards
prepare_path(file_name, wd, D, F) ==
    Let(RPartition(file_name, SEP)[1], LAMBDA dirname :
    Let(Ancestors(AbsPath(dirname, wd)), LAMBDA parents :
    IF dirname = <<>> THEN [exc |-> "", dirs |-> D]
    ELSE IF \E a \in parents : a \in DOMAIN F THEN [exc |-> "FileExistsError", dirs |-> D]
    ELSE [exc |-> "", dirs |-> D \cup parents]))

\* utils.md5s3(file): the fingerprint of the content, one per content
md5s3(content) == <<"m", "d", "5", ":">> \o content

\* open(path, 'r').read() translates the line ends of the stored bytes
CR == "\r"
LF == "\n"
UniversalNewlines(text) == Replace(Replace(text, <<CR, LF>>, <<LF>>), <<CR>>, <<LF>>)

(***************************************************************************)
(* Storage configurations and inputs                                       *)
(***************************************************************************)
NAME_N == <<"n">>
NAME_DA == <<"d", "/", "a">>
NAME_DB == <<"d", "/", "b">>
\* the names written and read back
PlainNames == {NAME_N, NAME_DA, NAME_DB}
\* the names handed to open, delete and exists
Names == PlainNames \cup {DOTDOT, PARENT \o NAME_N}
\* the paths handed to list and listdir
ListPaths == {<<>>, <<"d">>, <<"d", "/">>, NAME_N, <<"z">>, DOTDOT}

Modes == {<<"r">>, <<"a">>, <<"w", "+">>}

Str(text) == [kind |-> "str", text |-> text]
Bytes(text) == [kind |-> "bytes", text |-> text]
DataVals == {Str(<<"x">>), Str(<<"y", CR, LF>>)}

CWD == <<"/", "c">>
S3 == <<"s", "3", ":", "/", "/">>

\* [backend, cwd, workdir, files, dirs] at construction
Configs ==
    {[backend |-> "fs", workdir |-> w, files |-> fl, dirs |-> {ROOT, CWD, AbsPath(w, CWD)}] :
        w \in {<<"/", "w">>, <<"w">>},
        fl \in {[p \in {Child(CWD, NAME_N), Child(CWD, <<"a">>)} |-> <<"o">>]}}
    \cup
    {[backend |-> "fs", workdir |-> CWD, files |-> <<>>, dirs |-> {ROOT, CWD}]}
    \cup
    {[backend |-> "s3", workdir |-> S3 \o w, files |-> <<>>, dirs |-> {ROOT, CWD}] :
        w \in {<<"b", "/", "p">>, <<"b", "/", "p", "/">>, <<"b", "/">>}}

(***************************************************************************)
(* FilesystemStorage                                                       *)
(***************************************************************************)
\* what a storage primitive does: its result, the store afterwards, and the
\* paths it read, wrote or removed
Effect(res, F, D, io) == [res |-> res, files |-> F, dirs |-> D, io |-> io]
NoEffect(res) == Effect(res, files, dirs, {})

Without(F, p) == [q \in DOMAIN F \ {p} |-> F[q]]

_strip_prefix(text, prefix) ==
    IF StartsWith(text, prefix) THEN SubSeq(text, Len(prefix) + 1, Len(text)) ELSE text

\* BaseStorage._normalize_name
fs_normalize_name(name) ==
    Let(safe_join(workdir, <<name>>), LAMBDA r :
    IF r.exc = "ValueError" THEN Raise("SuspiciousOperation") ELSE r)

\* FilesystemStorage.get_valid_name
fs_get_valid_name(name) ==
    Let(get_valid_name(name, cwd), LAMBDA valid_path :
    IF valid_path.exc # "" THEN valid_path
    ELSE Ok(Replace(PosixJoin(workdir, valid_path.val), <<SEP, SEP>>, <<SEP>>)))

\* FilesystemStorage.read_into_stream(file_name), mode 'r': a str
fs_read_into_stream(file_name) ==
    Let(OsRead(file_name, cwd, dirs, files), LAMBDA r :
    IF r.exc # "" THEN NoEffect(Raise(r.exc))
    ELSE Effect(Ok([kind |-> "str", text |-> UniversalNewlines(r.val)]), files, dirs, {r.at}))

\* FilesystemStorage._write(f, file_name), f holding bytes
fs_write(bytes, file_name) ==
    Let(fs_normalize_name(file_name), LAMBDA nn :
    IF nn.exc # "" THEN NoEffect(nn)
    ELSE Let(prepare_path(nn.val, cwd, dirs, files), LAMBDA pp :
         IF pp.exc # "" THEN NoEffect(Raise(pp.exc))
         ELSE Let(OsCreate(nn.val, cwd, pp.dirs, files), LAMBDA c :
              IF c.exc # "" THEN Effect(c, files, pp.dirs, {})
              ELSE Effect(Ok(<<>>), (c.val :> bytes) @@ files, pp.dirs, {c.val}))))

\* FilesystemStorage.delete
fs_delete(name) ==
    Let(OsUnlink(name, cwd, dirs, files), LAMBDA u :
    IF u.exc # "" THEN NoEffect(u) ELSE Effect(Ok(<<>>), Without(files, u.val), dirs, {u.val}))

\* the first tuple of os.walk(top), as two sets of names
WalkTop(top) ==
    IF top.err = "" /\ top.path \in dirs
    THEN Ok([dirnames |-> {BaseName(d) : d \in {x \in dirs : Parent(x) = top.path /\ x # top.path}},
             filenames |-> {BaseName(q) : q \in {x \in DOMAIN files : Parent(x) = top.path}}])
    ELSE Ok([dirnames |-> {}, filenames |-> {}])

\* FilesystemStorage.listdir
fs_listdir(path) ==
    Let(fs_normalize_name(path), LAMBDA nn :
    IF nn.exc # "" THEN Raise(nn.exc) ELSE WalkTop(OsResolve(nn.val, cwd, dirs, files)))

\* the files os.walk(top) finds beneath the directory top
Beneath(top) == {q \in DOMAIN files : StartsWith(q, IF top = ROOT THEN ROOT ELSE top \o <<SEP>>)}

\* os.path.join(root, file) as os.walk(fixed_path) builds it for the file q beneath top
WalkedPath(fixed_path, top, q) == JoinAll(fixed_path, Comps(_strip_prefix(q, top)))

\* one entry list() yields for the file q beneath top: open(file, 'rb') takes the bare
\* file name, which the process resolves in its own directory
fs_list_entry(fixed_path, top, q) ==
    Let(OsRead(BaseName(q), cwd, dirs, files), LAMBDA opened :
    IF opened.exc # "" THEN opened
    ELSE [exc |-> "", at |-> opened.at,
          val |-> [md5 |-> md5s3(opened.val),
                   rel |-> _strip_prefix(WalkedPath(fixed_path, top, q), fixed_path)]])

\* the directory os.walk(fixed_path) starts from
WalkRoot(fixed_path) == OsResolve(fixed_path, cwd, dirs, files).path

\* the branch `if os.path.isdir(fixed_path)` of list, consumed to its end: the entries, or
\* the exception of the first open that fails after the walk opened the files `seen`
ListWalk(entries, seen) ==
    Let({q \in DOMAIN entries : entries[q].exc # ""}, LAMBDA failed :
    IF failed # {}
    THEN Effect(Raise(entries[CHOOSE q \in failed : TRUE].exc), files, dirs,
                {entries[q].at : q \in seen})
    ELSE Effect(Ok({entries[q].val : q \in DOMAIN entries}), files, dirs,
                {entries[q].at : q \in DOMAIN entries}))

\* the branch `elif os.path.exists(fixed_path)` of list
ListOne(one) == Effect(Ok({[md5 |-> md5s3(one.val), rel |-> <<>>]}), files, dirs, {one.at})

\* FilesystemStorage.list consumed to its end
fs_list(path, seen) ==
    Let(fs_normalize_name(path), LAMBDA nn :
    IF nn.exc # "" THEN NoEffect(Raise(nn.exc))
    ELSE IF OsIsDir(nn.val, cwd, dirs, files)
         THEN ListWalk([q \in Beneath(WalkRoot(nn.val)) |->
                           fs_list_entry(nn.val, WalkRoot(nn.val), q)], seen)
    ELSE IF OsExists(nn.val, cwd, dirs, files)
         THEN ListOne(OsRead(nn.val, cwd, dirs, files))
    ELSE NoEffect(Ok({})))

\* the files beneath top that list() can open
Openable(fixed_path, top) == {q \in Beneath(top) : fs_list_entry(fixed_path, top, q).exc = ""}

\* what the walk of list(path) may have opened before the open that fails
SeenChoices(path) ==
    Let(fs_normalize_name(path), LAMBDA nn :
    IF backend # "fs" \/ nn.exc # "" \/ ~OsIsDir(nn.val, cwd, dirs, files) THEN {{}}
    ELSE Let(Openable(nn.val, WalkRoot(nn.val)), LAMBDA good :
         IF good = Beneath(WalkRoot(nn.val)) THEN {{}} ELSE SUBSET good))

\* the files directly in the directory top, else all beneath it
FirstBeneath(top) ==
    Let({q \in Beneath(top) : Parent(q) = top}, LAMBDA direct :
    IF direct # {} THEN direct ELSE Beneath(top))

\* the files list(path) may yield first: os.walk is top-down, a directory's files in
\* the order the system lists them
FirstFiles(path) ==
    Let(fs_normalize_name(path), LAMBDA nn :
    IF nn.exc # "" \/ ~OsIsDir(nn.val, cwd, dirs, files) THEN {}
    ELSE FirstBeneath(WalkRoot(nn.val)))

\* next(storage.list(path)) when the walk yields the file q first
fs_list_first(path, q) ==
    Let(fs_normalize_name(path), LAMBDA nn :
    Let(fs_list_entry(nn.val, WalkRoot(nn.val), q), LAMBDA e :
    IF e.exc # "" THEN NoEffect(Raise(e.exc)) ELSE Effect(Ok({e.val}), files, dirs, {e.at})))

(***************************************************************************)
(* S3Storage: the bucket is a map from key to bytes                        *)
(***************************************************************************)
\* _strip_s3_path: <<bucket, path>>
_strip_s3_path(path) ==
    Let(Partition(_strip_prefix(path, S3), SEP), LAMBDA parts : <<parts[1], parts[3]>>)

\* S3Storage.__init__: self._bucket_name
s3_bucket_name == _strip_s3_path(workdir)[1]

\* S3Storage.__init__: self._workdir
s3_workdir ==
    Let(_strip_s3_path(workdir)[2], LAMBDA w : IF w # <<>> THEN RelPath(w, DOT, cwd) ELSE <<>>)

\* S3Storage.get_valid_name
s3_get_valid_name(name) ==
    Let(get_valid_name(name, cwd), LAMBDA valid_path :
    IF valid_path.exc # "" THEN valid_path
    ELSE Ok(S3 \o Replace(s3_bucket_name \o <<SEP>> \o s3_workdir \o <<SEP>> \o valid_path.val,
                          <<SEP, SEP>>, <<SEP>>)))

\* the first assertion of S3Storage._normalize_name
InWorkdir(name) == StartsWith(name, S3 \o s3_bucket_name \o <<SEP>> \o s3_workdir \o <<SEP>>)

\* S3Storage._normalize_name
s3_normalize_name(name) ==
    IF ~InWorkdir(name) THEN Raise("AssertionError")
    ELSE IF Contains(name, PARENT) THEN Raise("AssertionError")
    ELSE Ok(Replace(name, S3 \o s3_bucket_name \o <<SEP>>, <<>>))

\* S3Storage.read_into_stream: bytes
s3_read_into_stream(file_path) ==
    Let(_strip_s3_path(file_path), LAMBDA parts :
    IF ~StartsWith(file_path, S3) \/ parts[1] # s3_bucket_name
    THEN NoEffect(Raise("AssertionError"))
    ELSE IF parts[2] \notin DOMAIN files THEN NoEffect(Raise("FileNotFoundError"))
    ELSE Effect(Ok([kind |-> "bytes", text |-> files[parts[2]]]), files, dirs, {parts[2]}))

\* S3Storage._write
s3_write(bytes, file_name) ==
    Let(s3_normalize_name(file_name), LAMBDA internal_name :
    IF internal_name.exc # "" THEN NoEffect(internal_name)
    ELSE Effect(Ok(<<>>), (internal_name.val :> bytes) @@ files, dirs, {internal_name.val}))

\* what result['DeleteMarker'] is in the response of the object store
Markers == {"True", "False", "absent"}

\* S3Storage.delete, the object store answering with the given DeleteMarker
s3_delete(name, marker) ==
    Let(s3_get_valid_name(name), LAMBDA internal_name :
    IF internal_name.exc # "" THEN NoEffect(internal_name)
    ELSE Let(s3_normalize_name(internal_name.val), LAMBDA key :
         IF key.exc # "" THEN NoEffect(key)
         ELSE Effect(IF marker = "True" THEN Ok(<<>>)
                     ELSE IF marker = "absent" THEN Raise("KeyError")
                     ELSE Raise("RuntimeError"),
                     Without(files, key.val), dirs, {key.val} \cap DOMAIN files)))

\* the objects list_objects_v2 returns for a prefix, less the keys ending in '/'
ListedKeys(prefix) == {k \in DOMAIN files : StartsWith(k, prefix) /\ ~EndsWith(k, <<SEP>>)}

\* obj.e_tag: the entity tag S3 keeps for an object, one per content
e_tag(content) == <<"e", "t", "a", "g", ":">> \o content

\* S3Storage.list
s3_list(path) ==
    Let(s3_get_valid_name(path), LAMBDA valid_name :
    IF valid_name.exc # "" THEN NoEffect(valid_name)
    ELSE Let(_strip_s3_path(valid_name.val)[2], LAMBDA prefix :
         Effect(Ok({[md5 |-> e_tag(files[k]), rel |-> _strip_prefix(k, prefix)] : k \in ListedKeys(prefix)}),
                files, dirs, ListedKeys(prefix))))

\* list_objects with Delimiter '/' and Prefix path: the keys directly under the prefix
\* (Contents) and the prefixes one level down (CommonPrefixes), relative to the prefix
Delimited(path) ==
    Let({k \in DOMAIN files : StartsWith(k, path)}, LAMBDA under :
    Let({k \in under : ~Contains(_strip_prefix(k, path), <<SEP>>)}, LAMBDA contents :
    Ok([dirnames |-> {RelPath(path \o Partition(_strip_prefix(k, path), SEP)[1] \o <<SEP>>,
                              path, cwd) : k \in under \ contents},
        filenames |-> {RelPath(k, path, cwd) : k \in contents}])))

\* S3Storage.listdir
s3_listdir(name) ==
    Let(s3_get_valid_name(name), LAMBDA valid_name :
    IF valid_name.exc # "" THEN valid_name
    ELSE Let(s3_normalize_name(valid_name.val), LAMBDA norm :
         IF norm.exc # "" THEN norm
         ELSE IF norm.val # <<>> /\ ~EndsWith(norm.val, <<SEP>>)
              THEN Delimited(norm.val \o <<SEP>>)
         ELSE Delimited(norm.val)))

(***************************************************************************)
(* Dispatch on the backend, BaseStorage.open / exists, and File            *)
(***************************************************************************)
storage_get_valid_name(name) ==
    IF backend = "fs" THEN fs_get_valid_name(name) ELSE s3_get_valid_name(name)

storage_read_into_stream(name) ==
    IF backend = "fs" THEN fs_read_into_stream(name) ELSE s3_read_into_stream(name)

storage_write(bytes, name) ==
    IF backend = "fs" THEN fs_write(bytes, name) ELSE s3_write(bytes, name)

storage_listdir(path) == IF backend = "fs" THEN fs_listdir(path) ELSE s3_listdir(path)

storage_list(path, seen) == IF backend = "fs" THEN fs_list(path, seen) ELSE s3_list(path)

\* BaseStorage.open: the File, a value holding the valid name and the mode
open(file_name, mode) ==
    Let(storage_get_valid_name(file_name), LAMBDA valid_name :
    IF valid_name.exc # "" THEN valid_name
    ELSE Ok([given |-> file_name, name |-> valid_name.val, mode |-> mode]))

\* BaseStorage.exists
exists(name) ==
    Let(RPartition(name, SEP), LAMBDA parts :
    Let(storage_listdir(parts[1]), LAMBDA listing :
    IF listing.exc # "" THEN listing ELSE Ok(parts[3] \in listing.val.filenames)))

\* a write test that took the characters of the read test
ReadTestForWrite(mode) == Contains(mode, <<"r">>) \/ Contains(mode, <<"+">>)

\* the mode tests of File.read and File.write
MayRead(mode) == Contains(mode, <<"r">>) \/ Contains(mode, <<"+">>)
MayWrite(mode) == Contains(mode, <<"w">>) \/ Contains(mode, <<"a">>) \/ Contains(mode, <<"+">>)

\* content.decode(self.encoding) for a handle not in binary mode
Decode(content, mode) ==
    IF ~Contains(mode, <<"b">>) /\ content.kind = "bytes"
    THEN [kind |-> "str", text |-> content.text] ELSE content

\* data.encode('utf-8') for a str
Encode(data) == data.text

\* File.read
file_read(h) ==
    IF ~MayRead(h.mode) THEN NoEffect(Raise("IOError")) @@ [prim |-> FALSE]
    ELSE Let(storage_read_into_stream(h.name), LAMBDA got :
         IF got.res.exc # "" THEN got @@ [prim |-> TRUE]
         ELSE [got EXCEPT !.res = Ok(Decode(got.res.val, h.mode))] @@ [prim |-> TRUE])

\* File.write
file_write(h, data) ==
    IF ~MayWrite(h.mode) THEN NoEffect(Raise("IOError")) @@ [prim |-> FALSE]
    ELSE storage_write(Encode(data), h.name) @@ [prim |-> TRUE]

\* File.exists
file_exists(h, seen) ==
    Let(storage_list(h.name, seen), LAMBDA listed :
    IF listed.res.exc # "" THEN listed ELSE [listed EXCEPT !.res = Ok(listed.res.val # {})])

\* next(self.storage.list(self.name)) when the listing yields the file q first
ListNext(name, q) ==
    IF backend = "fs" /\ FirstFiles(name) # {} THEN fs_list_first(name, q)
    ELSE storage_list(name, {})

\* File.md5 when the listing yields the file q first
file_md5(h, q) ==
    Let(ListNext(h.name, q), LAMBDA first :
    IF first.res.exc # "" THEN first
    ELSE IF first.res.val = {} THEN NoEffect(Raise("FileNotFoundError"))
    ELSE [first EXCEPT !.res = Ok((CHOOSE e \in first.res.val : TRUE).md5)])

(***************************************************************************)
(* The storage as a state machine                                          *)
(***************************************************************************)
\* the names storage.open accepts
Openable_Names == {x \in Names : open(x, <<"r">>).exc = ""}

\* the File objects storage.open returns for the names: a File holds its name and mode
\* only, and open() reads nothing but the storage's constructor arguments
Handles(modes) == {open(n, m).val : n \in Openable_Names, m \in modes}

NoData == [kind |-> "none", text |-> <<>>]

\* what a call returned, one field per type of result: a str or bytes (kind, text), a
\* bool (flag), the entries of a listing, or the two lists of listdir
Blank ==
    [kind |-> "none", text |-> <<>>, flag |-> FALSE, entries |-> {},
     dirnames |-> {}, filenames |-> {}]
Content(data) == [Blank EXCEPT !.kind = data.kind, !.text = data.text]
Returned(op, v) ==
    IF op = "open" THEN [Blank EXCEPT !.kind = "File", !.text = v.name]
    ELSE IF op = "read" THEN Content(v)
    ELSE IF op = "f.md5" THEN [Blank EXCEPT !.kind = "md5", !.text = v]
    ELSE IF op \in {"exists", "f.exists"} THEN [Blank EXCEPT !.kind = "bool", !.flag = v]
    ELSE IF op = "list" THEN [Blank EXCEPT !.kind = "entries", !.entries = v]
    ELSE IF op = "listdir"
         THEN [Blank EXCEPT !.kind = "listing", !.dirnames = v.dirnames,
                            !.filenames = v.filenames]
    ELSE Blank

\* the record of an operation: the call, the exception it raised or the value it
\* returned, the paths it touched, and whether a backend primitive was invoked
Op(op, name, mode, res, io, prim) ==
    [op |-> op, name |-> name, mode |-> mode, exc |-> res.exc,
     out |-> IF res.exc # "" THEN Blank ELSE Returned(op, res.val),
     io |-> io, prim |-> prim]

Init ==
    /\ pc = "ready" /\ call = NoCall /\ ret = Ok(<<>>)
    /\ cwd = CWD
    /\ \E c \in Configs :
        /\ backend = c.backend /\ workdir = c.workdir /\ files = c.files /\ dirs = c.dirs
    /\ last = Op("none", <<>>, <<>>, Ok(<<>>), {}, FALSE)
    /\ hist = [n \in PlainNames |-> NoData]

\* every operation is a call made when the previous one has returned
Fixed == pc = "ready" /\ pc' = "returned" /\ UNCHANGED <<call, ret, backend, cwd, workdir>>

\* storage.open(name, mode)
Open ==
    /\ pc = "ready"
    /\ \E name \in Names, mode \in Modes :
        last' = Op("open", name, mode, open(name, mode), {}, FALSE)
    /\ UNCHANGED <<files, dirs, hist>> /\ Fixed

\* f.read()
Read ==
    /\ pc = "ready"
    /\ \E h \in Handles(Modes) :
        \E e \in {file_read(h)} :
            last' = Op("read", h.given, h.mode, e.res, e.io, e.prim)
    /\ UNCHANGED <<files, dirs, hist>> /\ Fixed

\* f.write(data); hist keeps the data of the last write that returned
Write ==
    /\ pc = "ready"
    /\ \E h \in Handles(Modes), data \in DataVals :
        \E e \in {file_write(h, data)} :
            /\ last' = Op("write", h.given, h.mode, e.res, e.io, e.prim)
            /\ files' = e.files /\ dirs' = e.dirs
            /\ hist' = IF e.res.exc = "" /\ h.given \in PlainNames
                       THEN [hist EXCEPT ![h.given] = data]
                       ELSE hist
    /\ Fixed

\* f.exists()
HandleExists ==
    /\ pc = "ready"
    /\ \E h \in Handles({<<"r">>}) :
        \E seen \in SeenChoices(h.name) :
            \E e \in {file_exists(h, seen)} :
                last' = Op("f.exists", h.given, <<>>, e.res, e.io, TRUE)
    /\ UNCHANGED <<files, dirs, hist>> /\ Fixed

\* f.md5()
Md5 ==
    /\ pc = "ready"
    /\ \E h \in Handles({<<"r">>}), q \in DOMAIN files \cup {<<>>} :
        /\ backend = "fs" /\ FirstFiles(h.name) # {} => q \in FirstFiles(h.name)
        /\ \E e \in {file_md5(h, q)} :
            last' = Op("f.md5", h.given, <<>>, e.res, e.io, TRUE)
    /\ UNCHANGED <<files, dirs, hist>> /\ Fixed

\* f.close(): storage._close(f) does nothing
Close ==
    /\ pc = "ready"
    /\ \E h \in Handles({<<"r">>}) : last' = Op("close", h.given, <<>>, Ok(<<>>), {}, FALSE)
    /\ UNCHANGED <<files, dirs, hist>> /\ Fixed

\* storage.delete(name); hist forgets a name whose delete changed the store
Delete ==
    /\ pc = "ready"
    /\ \E name \in Names, marker \in Markers :
        \E e \in {IF backend = "fs" THEN fs_delete(name) ELSE s3_delete(name, marker)} :
            /\ last' = Op("delete", name, <<>>, e.res, e.io, TRUE)
            /\ files' = e.files /\ dirs' = e.dirs
            /\ hist' = IF (e.res.exc = "" \/ e.files # files) /\ name \in PlainNames
                       THEN [hist EXCEPT ![name] = NoData]
                       ELSE hist
    /\ Fixed

\* storage.exists(name)
Exists ==
    /\ pc = "ready"
    /\ \E name \in Names : last' = Op("exists", name, <<>>, exists(name), {}, TRUE)
    /\ UNCHANGED <<files, dirs, hist>> /\ Fixed

\* list(storage.list(path))
List ==
    /\ pc = "ready"
    /\ \E path \in ListPaths :
        \E seen \in SeenChoices(path) :
            \E e \in {storage_list(path, seen)} :
                last' = Op("list", path, <<>>, e.res, e.io, TRUE)
    /\ UNCHANGED <<files, dirs, hist>> /\ Fixed

\* storage.listdir(path)
Listdir ==
    /\ pc = "ready"
    /\ \E path \in ListPaths :
        last' = Op("listdir", path, <<>>, storage_listdir(path), {}, TRUE)
    /\ UNCHANGED <<files, dirs, hist>> /\ Fixed

\* the caller takes the result and goes on
Resume ==
    /\ pc = "returned" /\ pc' = "ready"
    /\ last' = Op("none", <<>>, <<>>, Ok(<<>>), {}, FALSE)
    /\ UNCHANGED <<call, ret, backend, cwd, workdir, files, dirs, hist>>

Next ==
    \/ Open \/ Read \/ Write \/ HandleExists \/ Md5 \/ Close
    \/ Delete \/ Exists \/ List \/ Listdir \/ Resume

Spec == Init /\ [][Next]_vars

(***************************************************************************)
(* Properties of safe_join and get_valid_name                              *)
(***************************************************************************)
SafeJoinDone == pc = "done" /\ call.fn = "safe_join"
ValidNameDone == pc = "done" /\ call.fn = "get_valid_name"
IsCall(base, paths) == SafeJoinDone /\ call.base = base /\ call.paths = paths

\* the separators line 62 may have stripped from a relative result
Leads == {<<>>, <<SEP>>, <<SEP, SEP>>}

CompPrefix(b, p) == Len(b) <= Len(p) /\ SubSeq(p, 1, Len(b)) = b

\* the name, resolved from directory wd, lies outside wd
EscapesCwd(name, wd) == ~CompPrefix(Comps(wd), Comps(AbsPath(name, wd)))

\* the POSIX-normalized join of the root and the segments
NormJoin(base, paths) == NormPath(JoinAll(RStrip(base, SEP) \o <<SEP>>, paths))

\* the normalized join lies under the normalized root, component by component
UnderRoot(base, paths) ==
    LET root == NormPath(RStrip(base, SEP) \o <<SEP>>)
        joined == NormJoin(base, paths)
    IN  /\ StartsWith(root, <<SEP>>) <=> StartsWith(joined, <<SEP>>)
        /\ CompPrefix(Comps(root), Comps(joined))

\* C6 (as claimed): a name or first segment that starts with '../' and leaves the
\* directory it is resolved in is rejected by get_valid_name (SuspiciousOperation)
\* and by safe_join (ValueError).
C6_LeadingParentRejected ==
    /\ (ValidNameDone /\ StartsWith(call.paths[1], PARENT)
            /\ EscapesCwd(call.paths[1], call.wd))
           => ret = Raise("SuspiciousOperation")
    /\ (SafeJoinDone /\ call.paths # <<>> /\ StartsWith(call.paths[1], PARENT)
            /\ StartsWith(call.base, <<SEP>>) /\ ~UnderRoot(call.base, call.paths))
           => ret = Raise("ValueError")

\* C7 (as claimed): for every root, normalized or not, and every segment sequence
\* whose normalized join is under the root, safe_join returns a path prefixed by
\* the root followed by the separator.
C7_AcceptsInsideAnyRoot ==
    (SafeJoinDone /\ UnderRoot(call.base, call.paths)) =>
        /\ ret.exc = ""
        /\ \E lead \in Leads : StartsWith(lead \o ret.val, RStrip(call.base, SEP) \o <<SEP>>)

\* the root, stripped of trailing separators, is what normpath would make of it
NormalizedRoot(base) ==
    LET base_path == RStrip(base, SEP)
    IN  \/ base_path = <<>> /\ StartsWith(base, <<SEP>>)
        \/ base_path # DOT /\ NormPath(base_path) = base_path

\* the normalized join is the stripped root or starts with it and a separator
LiterallyUnder(base, paths) ==
    LET base_path == RStrip(base, SEP)
        joined == NormJoin(base, paths)
    IN  joined = base_path \/ StartsWith(joined, base_path \o <<SEP>>)

\* no segment before the last one ends in a separator
InnerSegmentsOpen(paths) ==
    \A i \in 1..(Len(paths) - 1) : ~EndsWith(paths[i], <<SEP>>)

\* C7 (amended): for every root whose form stripped of trailing separators is
\* already normalized, and every segment sequence in which only the last segment
\* may end in a separator and whose normalized join is that root or starts with
\* it and a separator, safe_join returns a path prefixed by the stripped root and
\* a separator; the single empty segment gives the stripped root plus one
\* separator.
C7_AcceptsInsideNormalizedRoot ==
    (SafeJoinDone /\ NormalizedRoot(call.base) /\ InnerSegmentsOpen(call.paths)
        /\ LiterallyUnder(call.base, call.paths)) =>
        /\ ret.exc = ""
        /\ StartsWith(ret.val, RStrip(call.base, SEP) \o <<SEP>>)
        /\ call.paths = <<<<>>>> => ret.val = RStrip(call.base, SEP) \o <<SEP>>

C7_Witness ==
    /\ IsCall(<<"/", "a", "/">>, <<<<"a">>, <<".", ".">>>>)
    /\ ret = Ok(<<"/", "a", "/">>)

(***************************************************************************)
(* Properties of the storages and of File                                  *)
(***************************************************************************)
\* Root: the workdir as the process resolves it
Root == AbsPath(workdir, cwd)

\* the path of the name n under Root
RootPath(n) == AbsPath(PosixJoin(workdir, n), cwd)

\* the path p lies strictly within Root's subtree
InsideRoot(p) == StartsWith(p, Root \o <<SEP>>)

\* the mode holds one of the characters
Mentions(mode, chars) == \E i \in 1..Len(mode) : mode[i] \in chars

\* C2 (as claimed): every path a FilesystemStorage operation reads, writes or
\* removes lies strictly within the storage's workdir subtree.
C2_IoInsideWorkdir ==
    backend = "fs" => \A p \in last.io : InsideRoot(p)

\* C3 (as claimed): for an absolute or a relative workdir W, a write through
\* storage.open(n, mode).write(data) that returns has created the file exactly
\* at W joined with n.
C3_WriteLandsAtWorkdirName ==
    (backend = "fs" /\ last.op = "write" /\ last.exc = "" /\ last.name \in PlainNames)
        => /\ last.io = {RootPath(last.name)}
           /\ RootPath(last.name) \in DOMAIN files

\* C4 (as claimed): on both backends, read() through a handle opened for
\* reading on a name that was written returns exactly the data of the most
\* recent write that returned.
C4_ReadReturnsLastWrite ==
    (last.op = "read" /\ Mentions(last.mode, {"r", "+"}) /\ last.name \in PlainNames
        /\ hist[last.name] # NoData)
        => (last.exc = "" /\ last.out = Content(hist[last.name]))

\* C5 (as claimed): storage.exists(n) is true exactly when n was written and
\* not deleted since; on the filesystem, delete of a name with no file under
\* Root raises FileNotFoundError and removes nothing.
C5_ExistsFollowsHistory ==
    [][/\ (last'.op = "exists" /\ last'.name \in PlainNames)
            => (last'.exc = "" /\ last'.out.flag = (hist[last'.name] # NoData))
       /\ (last'.op = "delete" /\ backend = "fs" /\ last'.name \in PlainNames
            /\ RootPath(last'.name) \notin DOMAIN files)
            => (last'.exc = "FileNotFoundError" /\ files' = files)]_vars

\* the relative paths list(path) yields as claimed: none where nothing exists,
\* the empty one for a file, and for a directory each file's path relative to it
ClaimedListing(path) ==
    Let(RootPath(path), LAMBDA target :
    IF target \in DOMAIN files THEN {<<>>}
    ELSE IF target \in dirs
         THEN {SubSeq(q, Len(target) + 2, Len(q)) : q \in Beneath(target)}
    ELSE {})

\* C8 (as claimed): FilesystemStorage.list(path), for a path under Root with
\* or without a trailing '/', does not raise and yields exactly one entry per
\* file, with the claimed relative paths (no leading separator).
C8_ListOutcomes ==
    (backend = "fs" /\ last.op = "list"
        /\ (RootPath(last.name) = Root \/ InsideRoot(RootPath(last.name))))
        => /\ last.exc = ""
           /\ {e.rel : e \in last.out.entries} = ClaimedListing(last.name)
           /\ Cardinality(last.out.entries) = Cardinality(ClaimedListing(last.name))

\* C9: read() through a handle whose mode holds neither 'r' nor '+', and
\* write() through one whose mode holds none of 'w', 'a', '+', raise IOError
\* without invoking a backend primitive, touch no path and leave the store as
\* it was; with such a character in the mode the backend primitive is invoked.
C9_ModeGatesOperations ==
    [][/\ (last'.op = "read" /\ ~Mentions(last'.mode, {"r", "+"}))
            => (last'.exc = "IOError" /\ ~last'.prim /\ last'.io = {}
                /\ files' = files /\ dirs' = dirs)
       /\ (last'.op = "write" /\ ~Mentions(last'.mode, {"w", "a", "+"}))
            => (last'.exc = "IOError" /\ ~last'.prim /\ last'.io = {}
                /\ files' = files /\ dirs' = dirs)
       /\ (last'.op = "read" /\ Mentions(last'.mode, {"r", "+"})) => last'.prim
       /\ (last'.op = "write" /\ Mentions(last'.mode, {"w", "a", "+"})) => last'.prim]_vars

\* a write through a handle opened with 'r' was rejected and the content
\* written before is still stored
C9_Witness ==
    /\ last.op = "write" /\ last.mode = <<"r">> /\ last.name = NAME_N
    /\ last.exc = "IOError" /\ ~last.prim
    /\ hist[NAME_N] # NoData

\* the in-bucket key of the name n: prefix/name
S3Key(n) == IF s3_workdir = <<>> THEN n ELSE s3_workdir \o <<SEP>> \o n

\* C10 (as claimed): on S3Storage with any workdir 's3://bucket/prefix', the
\* prefix empty or not, write, delete and listdir on a valid relative name do
\* not fail an assertion of _normalize_name, and a write that returns stored
\* the object under the key prefix/name.
C10_ValidNamesNormalize ==
    (backend = "s3" /\ last.name \in PlainNames)
        => /\ last.op \in {"write", "delete", "listdir"} => last.exc # "AssertionError"
           /\ (last.op = "write" /\ last.exc = "") => last.io = {S3Key(last.name)}

====
